---------------------------- MODULE Spec2Model ----------------------------
(***************************************************************************)
(* A model of src/src/plotting/interactive.py: create_earth, which builds  *)
(* a figure holding a 50 x 100 sphere mesh, and plot_orbit_ellipse, which  *)
(* appends a 100-point orbit curve to an existing axes.                    *)
(*                                                                         *)
(* Numbers.  The program computes in binary floating point (numpy          *)
(* float64).  The model keeps the structure of that arithmetic at a        *)
(* smaller width: a value is an integer count of quanta of 2^-20, and      *)
(* every operation rounds its result to 21 significant bits                *)
(* (round to nearest, ties to even).  Values below 2 therefore carry an    *)
(* absolute precision of one quantum and larger values lose low bits the   *)
(* way a float does, so that cancellation and absorption happen in the     *)
(* model where they happen in the program.  The unit roundoff of the model *)
(* is 2^-21; the tolerance of the claims is scaled with it (Tol).          *)
(* All values stay below 2^31 quanta (2048.0).                             *)
(***************************************************************************)
EXTENDS Integers, Sequences, FiniteSets, TLC

VARIABLES
  figs,   \* pyplot's figures in creation order; figure n holds axes n
  ret,    \* what the last call returned
  last    \* the last call made: its name and the axes it was given

vars == << figs, ret, last >>

---------------------------------------------------------------------------
(* Floating-point arithmetic.  The helpers are functions of their values,  *)
(* so that an argument is evaluated once, as a machine operand is.         *)

Scale == 1048576        \* quanta per unit: 2^20
MantUnit == 2097152     \* 2^21: magnitudes below it are kept exactly
Limb == 2048            \* 2^11

AbsF[a \in Int] == IF a < 0 THEN -a ELSE a
Abs(a) == AbsF[a]
SgnF[a \in Int] == IF a < 0 THEN -1 ELSE 1
Sgn(a) == SgnF[a]

\* The spacing of representable values at magnitude a.
Ulp[a \in Nat] == IF a < MantUnit THEN 1 ELSE 2 * Ulp[a \div 2]

\* The multiple of w nearest to a, ties to the even multiple.
Nearest[a \in Nat, w \in Nat] ==
  IF 2 * (a % w) > w \/ (2 * (a % w) = w /\ (a \div w) % 2 = 1)
  THEN ((a \div w) + 1) * w
  ELSE (a \div w) * w

\* Round to the nearest representable value.
RNF[x \in Int] ==
  IF Abs(x) < MantUnit THEN x ELSE Sgn(x) * Nearest[Abs(x), Ulp[Abs(x)]]
RN(x) == RNF[x]

\* The product x*y in quanta, rounded to the nearest quantum (ties to even),
\* computed in 11-bit limbs so that no intermediate exceeds 31 bits:
\* a = a0 + a1*2^11 + a2*2^22, and likewise b.
MulCarry[a0 \in Nat, a1 \in Nat, b0 \in Nat, b1 \in Nat] ==
  a0 * b1 + a1 * b0 + ((a0 * b0) \div Limb)
MulRound[hi \in Nat, lo \in Nat] ==
  IF 2 * lo > Scale \/ (2 * lo = Scale /\ hi % 2 = 1) THEN hi + 1 ELSE hi
MulLimbs[a0 \in Nat, a1 \in Nat, a2 \in Nat, b0 \in Nat, b1 \in Nat, b2 \in Nat, c1 \in Nat] ==
  MulRound[(c1 \div 512) + 4 * (a0 * b2 + a1 * b1 + a2 * b0)
             + 8192 * (a1 * b2 + a2 * b1) + 16777216 * (a2 * b2),
           ((a0 * b0) % Limb) + (c1 % 512) * Limb]
MulNat[a \in Nat, b \in Nat] ==
  MulLimbs[a % Limb, (a \div Limb) % Limb, a \div (Limb * Limb),
           b % Limb, (b \div Limb) % Limb, b \div (Limb * Limb),
           MulCarry[a % Limb, (a \div Limb) % Limb,
                    b % Limb, (b \div Limb) % Limb]]
MulQF[x \in Int, y \in Int] == Sgn(x) * Sgn(y) * MulNat[Abs(x), Abs(y)]
MulQ(x, y) == MulQF[x, y]

Mul(x, y) == RNF[MulQF[x, y]]
Add(x, y) == RNF[x + y]
Sub(x, y) == RNF[x - y]

\* The float nearest to an integer n.
Float(n) == RNF[n * Scale]

\* The quotient x / n for a positive integer n.
DivIntF[x \in Int, n \in Nat] == RNF[Sgn(x) * ((2 * Abs(x) + n) \div (2 * n))]
DivInt(x, n) == DivIntF[x, n]

---------------------------------------------------------------------------
(* numpy: np.pi, np.sin, np.cos, np.radians, np.linspace *)

Pi == 3294198           \* np.pi: RN(3.14159265... * 2^20)
TwoPi == Mul(Float(2), Pi)

\* pi/2 to 30 fractional bits, in two parts (argument reduction of sin, cos).
PiHalfHi == 1647099
PiHalfLo == 341

\* sin and cos on [-pi/4, pi/4], r2 = r*r.
SinP[r \in Int, r2 \in Int] ==
  r + MulQ(r, MulQ(r2, -174763 + MulQ(r2, 8738 - MulQ(r2, 208 - MulQ(r2, 3)))))
CosP[r2 \in Int] ==
  Scale + MulQ(r2, -524288 + MulQ(r2, 43691 - MulQ(r2, 1456 - MulQ(r2, 26))))
SinK[r \in Int] == SinP[r, MulQ(r, r)]
CosK[r \in Int] == CosP[MulQ(r, r)]

\* x = k * pi/2 + r with |r| <= pi/4.
Quadrant[x \in Int] == (x + (PiHalfHi \div 2)) \div PiHalfHi
ReduceBy[x \in Int, k \in Int] ==
  x - k * PiHalfHi - ((k * PiHalfLo + 512) \div 1024)
Reduced[x \in Int] == ReduceBy[x, Quadrant[x]]

SinQ[m \in 0..3, r \in Int] ==
  CASE m = 0 -> SinK[r]
    [] m = 1 -> CosK[r]
    [] m = 2 -> -SinK[r]
    [] OTHER -> -CosK[r]
SinF[x \in Int] == SinQ[Quadrant[x] % 4, Reduced[x]]
CosF[x \in Int] == SinQ[(Quadrant[x] + 1) % 4, Reduced[x]]
Sin(x) == SinF[x]
Cos(x) == CosF[x]

PiOver180 == 18302      \* RN(pi/180 * 2^20)
Radians(deg) == Mul(deg, PiOver180)

LinspaceNoEndpoint(stop, num) ==
  [k \in 1..num |-> Mul(Float(k - 1), DivInt(stop, num))]

\* np.linspace(0, stop, num): y = arange(num) * step with
\* step = stop / (num - 1), and the last sample set to stop itself.
Linspace(stop, num) ==
  [k \in 1..num |->
     IF k = num THEN stop ELSE Mul(Float(k - 1), DivInt(stop, num - 1))]

---------------------------------------------------------------------------
(* create_earth: the sphere mesh *)

NU == 100
NV == 50

u == Linspace(TwoPi, NU)
v == Linspace(Pi, NV)

SinU == [k \in 1..NU |-> Sin(u[k])]
CosU == [k \in 1..NU |-> Cos(u[k])]
SinV == [j \in 1..NV |-> Sin(v[j])]
CosV == [j \in 1..NV |-> Cos(v[j])]

\* A slip in line 30: y built with cos(u), as x is.
SphereMeshCosY(radius, center) ==
  [x |-> [j \in 1..NV |-> [k \in 1..NU |->
            Add(center[1], Mul(Mul(radius, SinV[j]), CosU[k]))]],
   y |-> [j \in 1..NV |-> [k \in 1..NU |->
            Add(center[2], Mul(Mul(radius, SinV[j]), CosU[k]))]],
   z |-> [j \in 1..NV |-> [k \in 1..NU |->
            Add(center[3], Mul(radius, CosV[j]))]]]

\* u, v = np.meshgrid(u, v): row j holds v[j], column k holds u[k].
SphereMeshCalc(radius, center) ==
  [x |-> [j \in 1..NV |-> [k \in 1..NU |->
            Add(center[1], Mul(Mul(radius, SinV[j]), CosU[k]))]],
   y |-> [j \in 1..NV |-> [k \in 1..NU |->
            Add(center[2], Mul(Mul(radius, SinV[j]), SinU[k]))]],
   z |-> [j \in 1..NV |-> [k \in 1..NU |->
            Add(center[3], Mul(radius, CosV[j]))]]]

---------------------------------------------------------------------------
(* plot_orbit_ellipse: the orbit curve *)

NO == 100

u_orbit == Linspace(TwoPi, NO)

Vec3 == Int \X Int \X Int

\* One sample: ca, sa = cos, sin of u + arg_perigee_rad; cr, sr of raan_rad;
\* ci, si of inclination_rad.
OrbitPoint[ca \in Int, sa \in Int, cr \in Int, sr \in Int, ci \in Int, si \in Int, semi_major_axis \in Int, center \in Vec3] ==
  << Add(center[1], Mul(semi_major_axis,
         Sub(Mul(ca, cr), Mul(Mul(sa, sr), ci)))),
     Add(center[2], Mul(semi_major_axis,
         Add(Mul(ca, sr), Mul(Mul(sa, cr), ci)))),
     Add(center[3], Mul(semi_major_axis, Mul(sa, si))) >>

OrbitPoints[arg_perigee_rad \in Int, cr \in Int, sr \in Int, ci \in Int, si \in Int, semi_major_axis \in Int, center \in Vec3] ==
  [k \in 1..NO |->
     OrbitPoint[Cos(Add(u_orbit[k], arg_perigee_rad)),
                Sin(Add(u_orbit[k], arg_perigee_rad)),
                cr, sr, ci, si, semi_major_axis, center]]

\* The curve were eccentricity applied: radius a * (1 - e).
OrbitCurveEccentric(inclination, raan, arg_perigee, semi_major_axis, eccentricity, center) ==
  OrbitPoints[Radians(arg_perigee),
              Cos(Radians(raan)), Sin(Radians(raan)),
              Cos(Radians(inclination)), Sin(Radians(inclination)),
              Mul(semi_major_axis, Sub(Scale, eccentricity)), center]

\* The curve were sin and cos of the inclination swapped.
OrbitCurveSwapped(inclination, raan, arg_perigee, semi_major_axis, eccentricity, center) ==
  OrbitPoints[Radians(arg_perigee),
              Cos(Radians(raan)), Sin(Radians(raan)),
              Sin(Radians(inclination)), Cos(Radians(inclination)),
              semi_major_axis, center]

\* The curve as a sequence of points << x, y, z >>.
OrbitCurve(inclination, raan, arg_perigee, semi_major_axis, eccentricity, center) ==
  OrbitPoints[Radians(arg_perigee),
              Cos(Radians(raan)), Sin(Radians(raan)),
              Cos(Radians(inclination)), Sin(Radians(inclination)),
              semi_major_axis, center]

---------------------------------------------------------------------------
(* The arguments the calls are made with *)

MaxCalls == 3     \* calls in one session of Spec
MaxRadius == 3    \* SpecSphere draws radius from 1.0 .. MaxRadius.0
MaxAxis == 2      \* SpecOrbit draws semi_major_axis from 1.0 .. MaxAxis.0

Origin == << 0, 0, 0 >>
Vec(a, b, c) == << Float(a), Float(b), Float(c) >>
Half == Scale \div 2

\* Spec: a few argument sets, among them out-of-range ones.
SphereArgs ==
  { [radius |-> Float(1),  center |-> Origin,         transparency |-> Half],
    [radius |-> Float(-1), center |-> Vec(3, -2, 5),  transparency |-> 3 * Half],
    [radius |-> 0,         center |-> Vec(0, 0, 7),   transparency |-> -Half] }

Ecc99 == 1038090  \* 0.99

OrbitArgs ==
  { [inclination |-> 0, raan |-> Float(45), arg_perigee |-> Float(80),
     semi_major_axis |-> Float(2), eccentricity |-> Ecc99, center |-> Origin],
    [inclination |-> 0, raan |-> Float(45), arg_perigee |-> Float(80),
     semi_major_axis |-> Float(2), eccentricity |-> 0, center |-> Origin],
    [inclination |-> Float(-400), raan |-> Float(720), arg_perigee |-> Float(1000),
     semi_major_axis |-> Float(-1), eccentricity |-> Float(2),
     center |-> Vec(3, -2, 5)],
    [inclination |-> Float(90), raan |-> 0, arg_perigee |-> 0,
     semi_major_axis |-> 0, eccentricity |-> 0, center |-> Origin] }

\* SpecSphere: radius > 0, centers near and far.
Radii == { Float(k) : k \in 1..MaxRadius }
Centers ==
  { Origin, Vec(1, -2, 3), Vec(-4, 4, 4), Vec(0, 0, -1), Vec(2, 2, 0),
    Vec(512, 0, 0), Vec(0, -300, 40), Vec(-64, 64, 64) }
Transparencies == { 0, Half \div 2, Half, Scale, 3 * Half }

\* SpecOrbit
Inclinations == { 0, Float(90), Float(30) }
Raans == { 0, Float(45) }
ArgPerigees == { 0, Float(80), Float(2000) }
SemiMajorAxes == { Float(k) : k \in 1..MaxAxis } \cup { Float(-2) }
Eccentricities == { 0, Ecc99 }
OrbitCenters == { Origin, Vec(3, -2, 5), Vec(512, 0, 0) }

\* The meshes and curves of the arguments the specifications draw, computed
\* once for each argument set.
SpherePairs ==
  { << a.radius, a.center >> :
      a \in SphereArgs \cup [radius : Radii, center : Centers,
                             transparency : Transparencies] }
MeshCache == [p \in SpherePairs |-> SphereMeshCalc(p[1], p[2])]
CurveCache ==
  [a \in OrbitArgs |->
     OrbitCurve(a.inclination, a.raan, a.arg_perigee, a.semi_major_axis,
                a.eccentricity, a.center)]

\* The mesh were it to depend on the figures already open.
SphereMeshShared(radius, center) ==
  SphereMeshCalc(Add(radius, Float(Len(figs))), center)

SphereMesh(radius, center) ==
  IF << radius, center >> \in SpherePairs
  THEN MeshCache[<< radius, center >>]
  ELSE SphereMeshCalc(radius, center)

OrbitArrays(args) ==
  IF args \in OrbitArgs
  THEN CurveCache[args]
  ELSE OrbitCurve(args.inclination, args.raan, args.arg_perigee,
                  args.semi_major_axis, args.eccentricity, args.center)

---------------------------------------------------------------------------
(* The two functions *)

NoReturn == [kind |-> "None", fig |-> 0, ax |-> 0]

Init ==
  /\ figs = << >>
  /\ ret = NoReturn
  /\ last = [op |-> "none", ax |-> 0]

\* ax.plot_surface(x, y, z, color='b', alpha=transparency)
Surface(args) ==
  [kind |-> "surface",
   x |-> SphereMesh(args.radius, args.center).x,
   y |-> SphereMesh(args.radius, args.center).y,
   z |-> SphereMesh(args.radius, args.center).z,
   color |-> "b", alpha |-> args.transparency, zorder |-> 0,
   args |-> args]

\* fig = plt.figure(); ax = fig.add_subplot(...); the surface; the labels.
NewAxes(args) ==
  [artists |-> << Surface(args) >>,
   xlabel |-> "X (km)", ylabel |-> "Y (km)", zlabel |-> "Z (km)",
   autoscale |-> TRUE]

\* create_earth were it to validate its arguments.
create_earth_validating(radius, center, transparency) ==
  IF radius > 0 /\ transparency >= 0 /\ transparency <= Scale
  THEN /\ figs' = Append(figs, NewAxes([radius |-> radius, center |-> center,
                                        transparency |-> transparency]))
       /\ ret' = [kind |-> "fig_ax", fig |-> Len(figs) + 1,
                  ax |-> Len(figs) + 1]
       /\ last' = [op |-> "create_earth", ax |-> 0]
  ELSE /\ figs' = figs
       /\ ret' = [kind |-> "ValueError", fig |-> 0, ax |-> 0]
       /\ last' = [op |-> "create_earth", ax |-> 0]

create_earth(radius, center, transparency) ==
  /\ figs' = Append(figs, NewAxes([radius |-> radius, center |-> center,
                                   transparency |-> transparency]))
  /\ ret' = [kind |-> "fig_ax", fig |-> Len(figs) + 1, ax |-> Len(figs) + 1]
  /\ last' = [op |-> "create_earth", ax |-> 0]

\* ax.plot(x, y, z, color='r', zorder=1): xyz[k] is << x[k], y[k], z[k] >>.
Line(args) ==
  [kind |-> "line", xyz |-> OrbitArrays(args),
   color |-> "r", alpha |-> Scale, zorder |-> 1,
   args |-> args]

\* The plot were it to clear the axes first.
PlotReplacing(fs, ax, line) == [fs EXCEPT ![ax].artists = << line >>]

PlotOn(fs, ax, line) == [fs EXCEPT ![ax].artists = Append(@, line)]

plot_orbit_ellipse(ax, inclination, raan, arg_perigee, semi_major_axis, eccentricity, center) ==
  /\ ax \in 1..Len(figs)
  /\ figs' = PlotOn(figs, ax,
                    Line([inclination |-> inclination, raan |-> raan,
                          arg_perigee |-> arg_perigee,
                          semi_major_axis |-> semi_major_axis,
                          eccentricity |-> eccentricity, center |-> center]))
  /\ ret' = NoReturn
  /\ last' = [op |-> "plot_orbit_ellipse", ax |-> ax]

---------------------------------------------------------------------------
(* Specifications *)

\* Every call adds one artist: the calls made so far.
RECURSIVE Calls(_)
Calls(fs) == IF fs = << >> THEN 0 ELSE Len(Head(fs).artists) + Calls(Tail(fs))

\* Spec: any interleaving of the two calls, MaxCalls calls long.
CreateEarth ==
  /\ Calls(figs) < MaxCalls
  /\ \E a \in SphereArgs : create_earth(a.radius, a.center, a.transparency)

PlotOrbitEllipse ==
  /\ Calls(figs) < MaxCalls
  /\ \E ax \in 1..Len(figs), a \in OrbitArgs :
       plot_orbit_ellipse(ax, a.inclination, a.raan, a.arg_perigee,
                          a.semi_major_axis, a.eccentricity, a.center)

Next == CreateEarth \/ PlotOrbitEllipse

Spec == Init /\ [][Next]_vars

\* SpecSphere: one create_earth call, arguments drawn widely.
CreateEarthAny ==
  /\ figs = << >>
  /\ \E r \in Radii, c \in Centers, t \in Transparencies : create_earth(r, c, t)

NextSphere == CreateEarthAny

SpecSphere == Init /\ [][NextSphere]_vars

\* SpecOrbit: create_earth, then one plot_orbit_ellipse call on its axes,
\* arguments drawn widely.
CreateEarthFirst ==
  /\ figs = << >>
  /\ create_earth(Float(1), Origin, Scale)

PlotOrbitEllipseAny ==
  /\ Len(figs) = 1
  /\ Len(figs[1].artists) = 1
  /\ \E i \in Inclinations, r \in Raans, w \in ArgPerigees,
        a \in SemiMajorAxes, e \in Eccentricities, c \in OrbitCenters :
       plot_orbit_ellipse(1, i, r, w, a, e, c)

NextOrbit == CreateEarthFirst \/ PlotOrbitEllipseAny

SpecOrbit == Init /\ [][NextOrbit]_vars

---------------------------------------------------------------------------
(* Measuring what the backend was handed *)

Max(a, b) == IF a >= b THEN a ELSE b

\* The size of the numbers a mesh or curve is made of.
Magnitude(len, center) ==
  Max(Max(Abs(len), Abs(center[1])), Max(Abs(center[2]), Abs(center[3])))

\* The tolerance at magnitude m: 2^-17 of it, sixteen units of roundoff
\* (the program's 1e-9 against its roundoff of 1.1e-16, at the model's width).
Tol(m) == m \div 131072

Sq(a) == MulQ(a, a)
Dist2(p, c) == Sq(p[1] - c[1]) + Sq(p[2] - c[2]) + Sq(p[3] - c[3])

\* A squared distance d2 is that of a distance within t of len.
DistanceIs(d2, len, t) ==
  /\ len >= 0
  /\ d2 <= Sq(len + t)
  /\ (len <= t \/ d2 >= Sq(len - t))

Close(a, b, t) == Abs(a - b) <= t

IsSurface(n, m) ==
  /\ n \in DOMAIN figs
  /\ m \in DOMAIN figs[n].artists
  /\ figs[n].artists[m].kind = "surface"

IsLine(n, m) ==
  /\ n \in DOMAIN figs
  /\ m \in DOMAIN figs[n].artists
  /\ figs[n].artists[m].kind = "line"

Slots == { nm \in (1..MaxCalls) \X (1..MaxCalls) : nm[1] \in DOMAIN figs }
SurfaceSlots == { nm \in Slots : IsSurface(nm[1], nm[2]) }
LineSlots == { nm \in Slots : IsLine(nm[1], nm[2]) }
ArtistAt(nm) == figs[nm[1]].artists[nm[2]]

\* Every point of the surface s is at distance len from its center, within t.
SurfaceAtDistance(s, len, t) ==
  \A j \in DOMAIN s.x : \A k \in DOMAIN s.x[j] :
    DistanceIs(Dist2(<< s.x[j][k], s.y[j][k], s.z[j][k] >>, s.args.center),
               len, t)

\* Every point of the line l is at distance len from its center, within t.
LineAtDistance(l, len, t) ==
  \A k \in DOMAIN l.xyz : DistanceIs(Dist2(l.xyz[k], l.args.center), len, t)

SurfaceTol(s) == Tol(Magnitude(s.args.radius, s.args.center))
LineTol(l) == Tol(Magnitude(l.args.semi_major_axis, l.args.center))

---------------------------------------------------------------------------
(* C1 *)

\* C1, as it holds: for every radius > 0 and every center, every point of the
\* mesh lies at distance radius from center, within the tolerance taken
\* relative to the larger of radius and the center's coordinates.
C1_SphereDistance ==
  \A nm \in SurfaceSlots :
    ArtistAt(nm).args.radius > 0 =>
      SurfaceAtDistance(ArtistAt(nm), ArtistAt(nm).args.radius,
                        SurfaceTol(ArtistAt(nm)))

\* A sphere of radius 1 far from the origin has been built.
C1_Witness ==
  \E nm \in SurfaceSlots :
    /\ ArtistAt(nm).args.radius = Float(1)
    /\ ArtistAt(nm).args.center[1] >= Float(512)

\* C1 as stated: the tolerance relative to radius, whatever the center.
C1_AsStated ==
  \A nm \in SurfaceSlots :
    ArtistAt(nm).args.radius > 0 =>
      SurfaceAtDistance(ArtistAt(nm), ArtistAt(nm).args.radius,
                        Tol(ArtistAt(nm).args.radius))

---------------------------------------------------------------------------
(* C2 *)

\* C2, as it holds: for every parameter set, every point of the curve lies
\* at distance |semi_major_axis| from center, within tolerance.
C2_OrbitDistance ==
  \A nm \in LineSlots :
    LineAtDistance(ArtistAt(nm), Abs(ArtistAt(nm).args.semi_major_axis),
                   LineTol(ArtistAt(nm)))

\* A curve with a negative semi_major_axis has been drawn.
C2_Witness ==
  \E nm \in LineSlots :
    /\ ArtistAt(nm).args.semi_major_axis < 0
    /\ ArtistAt(nm).args.center # Origin

\* C2 as stated: the distance is semi_major_axis itself.
C2_AsStated ==
  \A nm \in LineSlots :
    LineAtDistance(ArtistAt(nm), ArtistAt(nm).args.semi_major_axis,
                   LineTol(ArtistAt(nm)))

---------------------------------------------------------------------------
(* C3 *)

SameButEccentricity(a, b) ==
  [a EXCEPT !.eccentricity = 0] = [b EXCEPT !.eccentricity = 0]

\* C3: two plot_orbit_ellipse calls that differ only in eccentricity append
\* curves whose 100 points are element-wise identical.
C3_EccentricityInert ==
  \A nm \in LineSlots : \A pq \in LineSlots :
    SameButEccentricity(ArtistAt(nm).args, ArtistAt(pq).args) =>
      /\ DOMAIN ArtistAt(nm).xyz = 1..100
      /\ \A k \in 1..100 : ArtistAt(nm).xyz[k] = ArtistAt(pq).xyz[k]

\* Two curves drawn with eccentricity 0 and 0.99, all else equal.
C3_Witness ==
  \E nm \in LineSlots : \E pq \in LineSlots :
    /\ SameButEccentricity(ArtistAt(nm).args, ArtistAt(pq).args)
    /\ ArtistAt(nm).args.eccentricity = 0
    /\ ArtistAt(pq).args.eccentricity = Ecc99
    /\ ArtistAt(nm).args.semi_major_axis # 0

---------------------------------------------------------------------------
(* C4 *)

Polar(a) ==
  a.inclination = Float(90) /\ a.raan = 0 /\ a.arg_perigee = 0

\* The largest |z - center.z| over the points of l is m, within t.
MaxHeightIs(l, m, t) ==
  /\ \A k \in DOMAIN l.xyz : Abs(l.xyz[k][3] - l.args.center[3]) <= m + t
  /\ \E k \in DOMAIN l.xyz : Abs(l.xyz[k][3] - l.args.center[3]) >= m - t

\* cos(pi/198) = sin(50*pi/99) = 0.99987413..., the largest sine on the
\* grid 2*pi*k/99: 1 - 132 quanta.
CosPi198 == Scale - 132

\* C4, as it holds: with inclination 90, RAAN 0, arg_perigee 0 the maximum of
\* |z - center.z| over the 100 points is |semi_major_axis| * cos(pi/198),
\* within tolerance: the grid has no sample at u = pi/2.
C4_PolarHeight ==
  \A nm \in LineSlots :
    Polar(ArtistAt(nm).args) =>
      MaxHeightIs(ArtistAt(nm),
                  Mul(Abs(ArtistAt(nm).args.semi_major_axis), CosPi198),
                  LineTol(ArtistAt(nm)))

\* A polar curve with semi_major_axis 2 around the origin has been drawn.
C4_Witness ==
  \E nm \in LineSlots :
    /\ Polar(ArtistAt(nm).args)
    /\ ArtistAt(nm).args.semi_major_axis = Float(2)
    /\ ArtistAt(nm).args.center = Origin

\* C4 as stated: the maximum is semi_major_axis.
C4_AsStated ==
  \A nm \in LineSlots :
    Polar(ArtistAt(nm).args) =>
      MaxHeightIs(ArtistAt(nm), ArtistAt(nm).args.semi_major_axis,
                  LineTol(ArtistAt(nm)))

---------------------------------------------------------------------------
(* C5 *)

Equatorial(a) == a.inclination = 0 /\ a.raan = 0

\* C5: with inclination 0 and RAAN 0, every point of the curve has z equal
\* to center.z, whatever the other arguments.
C5_EquatorialPlane ==
  \A nm \in LineSlots :
    Equatorial(ArtistAt(nm).args) =>
      \A k \in DOMAIN ArtistAt(nm).xyz :
        ArtistAt(nm).xyz[k][3] = ArtistAt(nm).args.center[3]

\* An equatorial curve off the origin, with a perigee, axis and eccentricity.
C5_Witness ==
  \E nm \in LineSlots :
    /\ Equatorial(ArtistAt(nm).args)
    /\ ArtistAt(nm).args.arg_perigee = Float(80)
    /\ ArtistAt(nm).args.semi_major_axis = Float(2)
    /\ ArtistAt(nm).args.eccentricity = Ecc99
    /\ ArtistAt(nm).args.center[3] = Float(5)
    /\ ArtistAt(nm).xyz[1][1] # ArtistAt(nm).xyz[30][1]

---------------------------------------------------------------------------
(* C6 *)

\* The grid of one coordinate array: 50 polar rows of 100 azimuth samples.
IsGrid(g) ==
  /\ DOMAIN g = 1..50
  /\ \A j \in DOMAIN g : DOMAIN g[j] = 1..100

\* In every row the sample at u = 0 and the sample at u = 2*pi agree.
SeamCloses(g, t) == \A j \in DOMAIN g : Close(g[j][1], g[j][100], t)

\* C6: the mesh is a grid of 100 azimuth samples by 50 polar samples, and at
\* every polar sample the point at u = 0 coincides with the point at
\* u = 2*pi within tolerance.
C6_GridAndSeam ==
  \A nm \in SurfaceSlots :
    /\ IsGrid(ArtistAt(nm).x) /\ IsGrid(ArtistAt(nm).y)
    /\ IsGrid(ArtistAt(nm).z)
    /\ SeamCloses(ArtistAt(nm).x, SurfaceTol(ArtistAt(nm)))
    /\ SeamCloses(ArtistAt(nm).y, SurfaceTol(ArtistAt(nm)))
    /\ SeamCloses(ArtistAt(nm).z, SurfaceTol(ArtistAt(nm)))

\* A mesh of radius 3 whose equator row runs away from its seam point.
C6_Witness ==
  \E nm \in SurfaceSlots :
    /\ ArtistAt(nm).args.radius = Float(3)
    /\ ArtistAt(nm).args.center = Origin
    /\ ArtistAt(nm).x[25][1] > Float(2)
    /\ ArtistAt(nm).x[25][50] < Float(-2)

---------------------------------------------------------------------------
(* C7 *)

\* The step is a plot_orbit_ellipse call on axes ax.
PlotStep(ax) ==
  /\ last'.op = "plot_orbit_ellipse"
  /\ last'.ax = ax

\* Across the step, axes ax gained one line after the artists it had, and
\* nothing else about it changed.
AppendedOneLine(ax) ==
  /\ Len(figs'[ax].artists) = Len(figs[ax].artists) + 1
  /\ SubSeq(figs'[ax].artists, 1, Len(figs[ax].artists)) = figs[ax].artists
  /\ figs'[ax].artists[Len(figs'[ax].artists)].kind = "line"
  /\ [figs'[ax] EXCEPT !.artists = figs[ax].artists] = figs[ax]

\* C7: plot_orbit_ellipse returns nothing and only appends one line to the
\* axes it is given: the artists already there stay, unchanged and in place,
\* and every other axes is unchanged.
C7_AppendOnly ==
  [][\A ax \in 1..MaxCalls :
       PlotStep(ax) =>
         /\ ret' = NoReturn
         /\ DOMAIN figs' = DOMAIN figs
         /\ ax \in DOMAIN figs
         /\ AppendedOneLine(ax)
         /\ \A n \in DOMAIN figs : n # ax => figs'[n] = figs[n]]_vars

\* A second curve has just been drawn over a sphere and an earlier curve.
C7_Witness ==
  /\ last.op = "plot_orbit_ellipse"
  /\ ret = NoReturn
  /\ IsSurface(last.ax, 1) /\ IsLine(last.ax, 2) /\ IsLine(last.ax, 3)

---------------------------------------------------------------------------
(* C8 *)

---------------------------------------------------------------------------
(* C9 *)

\* Every call of the session's argument sets can be made here.
AllAccepted ==
  /\ \A a \in SphereArgs :
       ENABLED create_earth(a.radius, a.center, a.transparency)
  /\ \A ax \in DOMAIN figs : \A a \in OrbitArgs :
       ENABLED plot_orbit_ellipse(ax, a.inclination, a.raan, a.arg_perigee,
                                  a.semi_major_axis, a.eccentricity, a.center)

\* The call of this step ended without an error and handed the backend one
\* more artist, built from the arguments as given.
Completed ==
  /\ ret'.kind \in { "fig_ax", "None" }
  /\ Calls(figs') = Calls(figs) + 1

---------------------------------------------------------------------------
(* C10 *)

\* The samples u are 100, start at 0, end at 2*pi and are evenly spaced:
\* sample k is (k - 1) * 2*pi / 99, within tolerance.
EvenlySpaced(us) ==
  /\ DOMAIN us = 1..100
  /\ us[1] = 0
  /\ us[100] = TwoPi
  /\ \A k \in DOMAIN us : Close(99 * us[k], (k - 1) * TwoPi, 99 * Tol(TwoPi))

\* The line has 100 points, one for each sample.
HundredPoints(l) ==
  /\ DOMAIN l.xyz = 1..100
  /\ \A k \in DOMAIN l.xyz : DOMAIN l.xyz[k] = 1..3

\* The first and the last point of the line coincide within t.
Closed(l, t) ==
  \A i \in 1..3 : Close(l.xyz[1][i], l.xyz[100][i], t)

\* The floats around u + arg_perigee are spaced by at most half the relative
\* tolerance, so that adding 2*pi to the perigee keeps the angle to within it.
AngleResolved(a) ==
  2 * Ulp[Abs(Radians(a.arg_perigee)) + TwoPi] <= Tol(Scale)

\* C10, as it holds: the curve is 100 points in order, sampled at evenly
\* spaced u over [0, 2*pi] with both endpoints, and its first and last point
\* coincide within tolerance when arg_perigee is small enough for the floats
\* around u + arg_perigee to resolve the tolerance.
C10_ClosedCurve ==
  /\ EvenlySpaced(u_orbit)
  /\ \A nm \in LineSlots :
       /\ HundredPoints(ArtistAt(nm))
       /\ AngleResolved(ArtistAt(nm).args) =>
            Closed(ArtistAt(nm), LineTol(ArtistAt(nm)))

\* A closed curve of radius 2 started away from its axes' node has been drawn.
C10_Witness ==
  \E nm \in LineSlots :
    /\ ArtistAt(nm).args.arg_perigee = Float(80)
    /\ AngleResolved(ArtistAt(nm).args)
    /\ ArtistAt(nm).args.semi_major_axis = Float(2)
    /\ ArtistAt(nm).xyz[1] # ArtistAt(nm).xyz[50]

\* C10 as stated: closed for every parameter set.
C10_AsStated ==
  /\ EvenlySpaced(u_orbit)
  /\ \A nm \in LineSlots :
       /\ HundredPoints(ArtistAt(nm))
       /\ Closed(ArtistAt(nm), LineTol(ArtistAt(nm)))

============================================================================
